---- MODULE Spec2Model ----
(***************************************************************************)
(* Control plane of the CDN edge-selection service (src/cdn.py):           *)
(* the server registry (CDNManagementService.servers), the selection       *)
(* engine (select_optimal_server) and the periodic health loop             *)
(* (perform_health_check.health_check).                                    *)
(*                                                                         *)
(* ServerInfo objects are mutable Python objects held by reference: the    *)
(* registry dict maps a server_id to a reference, and the health loop      *)
(* iterates over a list of references taken at the start of a pass.  The   *)
(* model therefore keeps a heap of objects and lets the registry and the   *)
(* snapshot hold references into it.  host and port are never read by the  *)
(* modelled code and are left out of the record.  health_score is kept as  *)
(* an integer (all values the code computes from integer scores are        *)
(* integral), time in whole seconds.                                       *)
(***************************************************************************)
EXTENDS Integers, Sequences, FiniteSets, TLC

Max(a, b) == IF a >= b THEN a ELSE b

(***************************************************************************)
(* Bounds of the model.                                                    *)
(***************************************************************************)
MaxObjs == 2       \* ServerInfo objects constructed in a run of Spec
MaxFleet == 3      \* servers of a registry SelSpec starts from
MaxRequests == 1   \* requests recorded in a run
StartTime == 100   \* time.time() when the service starts
MaxTime == 160     \* the clocks stop advancing here
TickStep == 30     \* granularity at which the clocks are observed
MaxEvals == 3      \* evaluations of one record that are counted

(***************************************************************************)
(* Program constants.                                                      *)
(***************************************************************************)
HealthyThreshold == 50
CheckInterval == 30
SleepInterval == 30
DecayPerError == 10
DefaultHealth == 100

(***************************************************************************)
(* Input sets.  Spec, which interleaves the health loop with the callers,  *)
(* draws from the small sets; SelSpec, which applies the selection to      *)
(* whole registries, from the large ones.  WideSpec runs the registry and  *)
(* the health loop with registrations of a score outside [0, 100] and a    *)
(* wall clock that can be set back.                                        *)
(***************************************************************************)
ServerIds == {"s1", "s2", "s3"}
Locations == {"NY", "LA", "SF"}
ClientLocations == {"CL", "SF"}
FleetHealth == {0, 50, 60, DefaultHealth, 110}

PairIds == {"s1", "s2"}
HomeLocations == {"NY"}
NearClients == {"CL"}
\* The <<health_score, error_count>> pairs of the ServerInfo objects handed to register_server.
RegInputs == {<<DefaultHealth, 0>>, <<60, 0>>, <<DefaultHealth, 10>>}
WideInputs == {<<110, 0>>, <<DefaultHealth, 1>>}

Refs == 1..Max(MaxObjs, MaxFleet)
None == 0

(***************************************************************************)
(* GeolocationService.calculate_network_distance: the haversine formula    *)
(* with R = 6371 km, evaluated on the coordinates of main()'s server       *)
(* locations (NY, LA, SF) and of the client (40.73, -73.93) (CL), rounded  *)
(* to whole kilometres.                                                    *)
(***************************************************************************)
HaversineKm ==
  [a \in Locations \union ClientLocations |->
    [b \in Locations \union ClientLocations |->
      CASE a = b -> 0
        [] {a, b} = {"NY", "LA"} -> 3936
        [] {a, b} = {"NY", "SF"} -> 4129
        [] {a, b} = {"LA", "SF"} -> 559
        [] {a, b} = {"CL", "NY"} -> 7
        [] {a, b} = {"CL", "LA"} -> 3942
        [] {a, b} = {"CL", "SF"} -> 4135]]

calculate_network_distance(loc1, loc2) == HaversineKm[loc1][loc2]

(***************************************************************************)
(* ServerInfo dataclass: the fields the core reads or writes, with the     *)
(* dataclass defaults last_health_check = 0 and total_requests = 0.        *)
(***************************************************************************)
ServerInfo(id, loc, h, e) ==
  [server_id |-> id, location |-> loc, health_score |-> h,
   last_health_check |-> 0, total_requests |-> 0, error_count |-> e]

\* Content of a heap cell no object has been constructed in yet.
FreeObj ==
  [server_id |-> "", location |-> "", health_score |-> 0,
   last_health_check |-> 0, total_requests |-> 0, error_count |-> 0]

\* Content of the cell of an object nothing refers to any more.
DeadObj ==
  [server_id |-> "-", location |-> "", health_score |-> 0,
   last_health_check |-> 0, total_requests |-> 0, error_count |-> 0]

VARIABLES
  servers,   \* self.servers: the dict as the sequence of its values (references), in insertion order
  heap,      \* the ServerInfo objects, by reference
  now,       \* time.time(), the wall clock
  hcPc,      \* position of the health_check coroutine
  hcSnap,    \* the part of list(self.servers.values()) the for loop has not finished with; its head is `server`
  hcTime,    \* current_time of the evaluation in progress
  hcWake,    \* what is left of asyncio.sleep(30), on the event loop's monotonic clock
  served,    \* number of requests the collaborator has recorded so far
  sel,       \* the select_optimal_server call in progress, statement by statement
  evals,     \* history of each object, where kept: its fields when constructed, the evaluations and skips since
  lastOp,    \* the operation performed last,
  lastArg,   \* its argument
  lastRet    \* and its result

vars ==
  <<servers, heap, now, hcPc, hcSnap, hcTime, hcWake, served, sel, evals,
    lastOp, lastArg, lastRet>>

\* The operation performed last, as one record.
last == [op |-> lastOp, arg |-> lastArg, ret |-> lastRet]

\* Operation o has been performed with argument a and result r.
Did(o, a, r) == lastOp' = o /\ lastArg' = a /\ lastRet' = r

Range(seq) == {seq[i] : i \in 1..Len(seq)}

\* The keys of self.servers.
Keys(srv, hp) == {hp[srv[i]].server_id : i \in 1..Len(srv)}

\* Position of the entry stored under key id (0 when absent).
PosOf(srv, hp, id) ==
  IF id \in Keys(srv, hp)
    THEN CHOOSE i \in 1..Len(srv) : hp[srv[i]].server_id = id
    ELSE 0

\* self.servers[id]
Lookup(srv, hp, id) == srv[PosOf(srv, hp, id)]

(***************************************************************************)
(* Objects referenced neither by the registry nor by the rest of the       *)
(* snapshot are unreachable: their content is dropped.  A cell is never    *)
(* used for a second object, so a reference names one object for good.     *)
(***************************************************************************)
CollectHeld(srv, snap, held, hp) ==
  [r \in Refs |->
    IF r \in Range(srv) \union Range(snap) \union held \/ hp[r] = FreeObj
      THEN hp[r] ELSE DeadObj]

\* The objects a select_optimal_server call in progress refers to: its list
\* healthy_servers and, once it has returned, its result.
SelHeld(sl) == Range(sl.healthy) \union ({sl.ret} \ {None})

Collect(srv, snap, hp) == CollectHeld(srv, snap, SelHeld(sel), hp)

\* No select_optimal_server call in progress.
SelIdle ==
  [pc |-> "idle", c |-> "", size |-> 0, pos |-> 0, iterated |-> <<>>,
   healthy |-> <<>>, admitted |-> <<>>, ranked |-> <<>>,
   best |-> None, bestKey |-> <<0, 0>>, ret |-> None, outcome |-> ""]

\* History of an object: health_score and error_count it was constructed
\* with, the number of evaluations it went through (counted up to MaxEvals)
\* and the number of passes that skipped it since the last one.  Histories
\* are kept (on) in the specification that counts evaluations, LiveSpec.
NoEvals == [on |-> FALSE, h0 |-> 0, e0 |-> 0, k |-> 0, skips |-> 0]

Unused == [NoEvals EXCEPT !.on = TRUE]

Constructed(ev, h, e) == IF ev.on THEN [Unused EXCEPT !.h0 = h, !.e0 = e] ELSE ev

Evaluated(ev) ==
  IF ev.on
    THEN [ev EXCEPT !.k = IF @ < MaxEvals THEN @ + 1 ELSE MaxEvals + 1, !.skips = 0]
    ELSE ev

Skipped(ev) == IF ev.on THEN [ev EXCEPT !.skips = IF @ < 2 THEN @ + 1 ELSE 2] ELSE ev

\* The history of an object goes with the object.
Track(hp, ev) ==
  [r \in Refs |-> IF hp[r] \in {FreeObj, DeadObj} /\ ev[r].on THEN Unused ELSE ev[r]]

FreeRefs == {r \in Refs : heap[r] = FreeObj}

\* The cell a newly constructed ServerInfo object gets.
NewRef == CHOOSE r \in FreeRefs : \A q \in FreeRefs : r <= q

(***************************************************************************)
(* register_server: self.servers[server_info.server_id] = server_info.     *)
(* Assigning to an existing key of a dict keeps the key's position.        *)
(***************************************************************************)
register_server_append(srv, hp, r, id) == Append(srv, r)

register_server(srv, hp, r, id) ==
  IF id \in Keys(srv, hp)
    THEN [srv EXCEPT ![PosOf(srv, hp, id)] = r]
    ELSE Append(srv, r)

(***************************************************************************)
(* deregister_server: if server_id in self.servers: del self.servers[id].  *)
(***************************************************************************)
deregister_server_popitem(srv, hp, id) ==
  IF id \in Keys(srv, hp)
    THEN [servers |-> SubSeq(srv, 1, Len(srv) - 1), outcome |-> "deregistered"]
    ELSE [servers |-> srv, outcome |-> "noop"]

deregister_server_unchecked(srv, hp, id) ==
  [servers |-> SelectSeq(srv, LAMBDA r : hp[r].server_id # id),
   outcome |-> IF id \in Keys(srv, hp) THEN "deregistered" ELSE "KeyError"]

deregister_server(srv, hp, id) ==
  IF id \in Keys(srv, hp)
    THEN [servers |-> SelectSeq(srv, LAMBDA r : hp[r].server_id # id),
          outcome |-> "deregistered"]
    ELSE [servers |-> srv, outcome |-> "noop"]

(***************************************************************************)
(* select_optimal_server.                                                  *)
(***************************************************************************)
IsHealthy_inclusive(s) == s.health_score >= HealthyThreshold

IsHealthy(s) == s.health_score > HealthyThreshold

healthy_servers(srv, hp) == SelectSeq(srv, LAMBDA r : IsHealthy(hp[r]))

SelectKey_health_first(c, s) ==
  <<100 - s.health_score, calculate_network_distance(c, s.location)>>

\* The key of the min() call: (distance, 100 - health_score).
SelectKey(c, s) ==
  <<calculate_network_distance(c, s.location), 100 - s.health_score>>

\* Python's < on 2-tuples.
TupleLess(k1, k2) ==
  \/ k1[1] < k2[1]
  \/ k1[1] = k2[1] /\ k1[2] < k2[2]

RECURSIVE MinByKey_last_minimal(_, _, _, _, _)
MinByKey_last_minimal(seq, hp, c, i, best) ==
  IF i > Len(seq) THEN best
  ELSE IF ~TupleLess(SelectKey(c, hp[best]), SelectKey(c, hp[seq[i]]))
    THEN MinByKey_last_minimal(seq, hp, c, i + 1, seq[i])
    ELSE MinByKey_last_minimal(seq, hp, c, i + 1, best)

\* Python's min(iterable, key=...): the first element whose key is minimal.
RECURSIVE MinByKey(_, _, _, _, _)
MinByKey(seq, hp, c, i, best) ==
  IF i > Len(seq) THEN best
  ELSE IF TupleLess(SelectKey(c, hp[seq[i]]), SelectKey(c, hp[best]))
    THEN MinByKey(seq, hp, c, i + 1, seq[i])
    ELSE MinByKey(seq, hp, c, i + 1, best)

select_optimal_server_fallback(srv, hp, c) ==
  LET hs == healthy_servers(srv, hp)
      all == IF hs = <<>> THEN srv ELSE hs
  IN  IF all = <<>> THEN None ELSE MinByKey(all, hp, c, 2, all[1])

select_optimal_server(srv, hp, c) ==
  LET hs == healthy_servers(srv, hp)
  IN  IF hs = <<>> THEN None ELSE MinByKey(hs, hp, c, 2, hs[1])

(***************************************************************************)
(* CDNMetricsExporter.generate_metrics: three lines per entry of           *)
(* self.servers.items(), in the dict's order, joined by "\n".  A line      *)
(* f'cdn_server_health{server_id="<id>"} <value>' is kept as its three     *)
(* parts; the text is the sequence of the lines and the "\n" between them. *)
(***************************************************************************)
MetricLine(metric, id, v) == [name |-> metric, server_id |-> id, value |-> v]

Newline == [name |-> "\n", server_id |-> "", value |-> 0]

\* metrics.extend([...]) for one server.
ServerLines(s) ==
  <<MetricLine("cdn_server_health", s.server_id, s.health_score),
    MetricLine("cdn_server_requests", s.server_id, s.total_requests),
    MetricLine("cdn_server_errors", s.server_id, s.error_count)>>

\* '\n'.join(metrics): the empty string for an empty list.
RECURSIVE Join(_)
Join(lines) ==
  IF lines = <<>> THEN <<>>
  ELSE IF Len(lines) = 1 THEN lines
  ELSE <<lines[1], Newline>> \o Join(Tail(lines))

RECURSIVE MetricLines_healthy_only(_, _)
MetricLines_healthy_only(srv, hp) ==
  IF srv = <<>> THEN <<>>
  ELSE (IF hp[srv[1]].health_score > HealthyThreshold THEN ServerLines(hp[srv[1]]) ELSE <<>>)
         \o MetricLines_healthy_only(Tail(srv), hp)

\* The list `metrics` after the for loop.
RECURSIVE MetricLines(_, _)
MetricLines(srv, hp) ==
  IF srv = <<>> THEN <<>>
  ELSE ServerLines(hp[srv[1]]) \o MetricLines(Tail(srv), hp)

generate_metrics(srv, hp) == Join(MetricLines(srv, hp))

(***************************************************************************)
(* health_check: the due test and the scoring policy.                      *)
(***************************************************************************)
IsDue_at_least(current_time, s) == current_time - s.last_health_check >= CheckInterval

IsDue_always(current_time, s) == TRUE

IsDue(current_time, s) == current_time - s.last_health_check > CheckInterval

NewScore_recovering(s) ==
  IF s.error_count = 0
    THEN (IF s.health_score + DecayPerError < DefaultHealth
            THEN s.health_score + DecayPerError ELSE DefaultHealth)
    ELSE Max(0, s.health_score - (s.error_count * DecayPerError))

NewScore_per_error(s) == Max(0, s.health_score - s.error_count)

NewScore_unclamped(s) == s.health_score - (s.error_count * DecayPerError)

NewScore(s) == Max(0, s.health_score - (s.error_count * DecayPerError))

WriteScore_and_reset(srv, hp, r) ==
  [servers |-> srv,
   heap |-> [hp EXCEPT ![r].health_score = NewScore(hp[r]), ![r].error_count = 0]]

WriteScore_through_registry(srv, hp, r) ==
  [servers |-> register_server(srv, hp, r, hp[r].server_id),
   heap |-> [hp EXCEPT ![r].health_score = NewScore(hp[r])]]

\* server.health_score = ...: an attribute of the snapshot's object is assigned, the dict is not.
WriteScore(srv, hp, r) ==
  [servers |-> srv, heap |-> [hp EXCEPT ![r].health_score = NewScore(hp[r])]]

\* server.last_health_check = current_time
WriteStamp(srv, hp, r, current_time) ==
  [servers |-> srv, heap |-> [hp EXCEPT ![r].last_health_check = current_time]]

AfterFault_abort_pass(snap) == <<>>

\* The except clause sits inside the for body: the loop goes on with the rest of the snapshot.
AfterFault(snap) == Tail(snap)

(***************************************************************************)
(* Initial state: CDNManagementService() followed by                       *)
(* perform_health_check(), as in main().                                   *)
(***************************************************************************)
Init ==
  /\ servers = <<>>
  /\ heap = [r \in Refs |-> FreeObj]
  /\ now = StartTime
  /\ hcPc = "snapshot"
  /\ hcSnap = <<>>
  /\ hcTime = 0
  /\ hcWake = 0
  /\ served = 0
  /\ sel = SelIdle
  /\ evals = [r \in Refs |-> NoEvals]
  /\ lastOp = "init" /\ lastArg = None /\ lastRet = None

hcVars == <<hcPc, hcSnap, hcTime, hcWake>>

Register(id, loc, h, e) ==
  /\ Cardinality(Refs \ FreeRefs) < MaxObjs
  /\ LET r == NewRef
         srv == register_server(servers, heap, r, id)
     IN  /\ servers' = srv
         /\ heap' = Collect(srv, hcSnap, [heap EXCEPT ![r] = ServerInfo(id, loc, h, e)])
         /\ evals' = Track(heap', [evals EXCEPT ![r] = Constructed(@, h, e)])
         /\ Did("register", ServerInfo(id, loc, h, e), r)
  /\ UNCHANGED <<now, hcVars, served, sel>>

Deregister(id) ==
  /\ LET d == deregister_server(servers, heap, id)
     IN  /\ servers' = d.servers
         /\ heap' = Collect(d.servers, hcSnap, heap)
         /\ evals' = Track(heap', evals)
         /\ Did("deregister", id, d.outcome)
  /\ UNCHANGED <<now, hcVars, served, sel>>

Select(c) ==
  /\ Did("select", c, select_optimal_server(servers, heap, c))
  /\ UNCHANGED <<servers, heap, now, hcVars, served, sel, evals>>

(***************************************************************************)
(* select_optimal_server as a caller's thread runs it while other threads  *)
(* use the registry: the list comprehension iterates the live dict, one    *)
(* entry per step, and min() then computes the key of one list element per *)
(* step.  The iterator of a dict raises RuntimeError ("dictionary changed  *)
(* size during iteration") when the dict's size is not the size it had     *)
(* when the iteration began; an assignment to an existing key keeps size   *)
(* and position.                                                           *)
(***************************************************************************)
\* servers.values() is entered: the iteration begins.
SelBegin(c) ==
  /\ sel.pc \in {"idle", "done"}
  /\ sel' = [SelIdle EXCEPT !.pc = "iter", !.c = c, !.size = Len(servers),
                            !.pos = 1, !.iterated = servers]
  /\ heap' = CollectHeld(servers, hcSnap, {}, heap)
  /\ evals' = Track(heap', evals)
  /\ Did("sel_begin", c, None)
  /\ UNCHANGED <<servers, now, hcVars, served>>

\* One step of: [server for server in self.servers.values() if server.health_score > 50],
\* followed, when the iteration ends, by: if not healthy_servers: return None.
SelAdmit ==
  /\ sel.pc = "iter"
  /\ IF Len(servers) # sel.size
       THEN sel' = [sel EXCEPT !.pc = "done", !.outcome = "RuntimeError", !.healthy = <<>>]
       ELSE IF sel.pos > Len(servers)
         THEN IF sel.healthy = <<>>
                THEN sel' = [sel EXCEPT !.pc = "done", !.outcome = "returned", !.ret = None]
                ELSE sel' = [sel EXCEPT !.pc = "rank", !.pos = 1]
         ELSE LET r == servers[sel.pos]
              IN  IF IsHealthy(heap[r])
                    THEN sel' = [sel EXCEPT !.pos = @ + 1,
                                            !.healthy = Append(@, r),
                                            !.admitted = Append(@, heap[r].health_score)]
                    ELSE sel' = [sel EXCEPT !.pos = @ + 1]
  /\ heap' = CollectHeld(servers, hcSnap, SelHeld(sel'), heap)
  /\ evals' = Track(heap', evals)
  /\ Did("sel_admit", sel.c, None)
  /\ UNCHANGED <<servers, now, hcVars, served>>

\* One step of min(healthy_servers, key=...): the key of the next element is
\* computed and compared with the key kept for the best one so far; after
\* the last element the best one is returned.
SelRank ==
  /\ sel.pc = "rank"
  /\ IF sel.pos > Len(sel.healthy)
       THEN sel' = [sel EXCEPT !.pc = "done", !.outcome = "returned", !.ret = sel.best,
                               !.healthy = <<>>]
       ELSE LET r == sel.healthy[sel.pos]
                key == SelectKey(sel.c, heap[r])
                better == sel.pos = 1 \/ TupleLess(key, sel.bestKey)
            IN  sel' = [sel EXCEPT !.pos = @ + 1,
                                   !.ranked = Append(@, heap[r].health_score),
                                   !.best = IF better THEN r ELSE @,
                                   !.bestKey = IF better THEN key ELSE @]
  /\ heap' = CollectHeld(servers, hcSnap, SelHeld(sel'), heap)
  /\ evals' = Track(heap', evals)
  /\ Did("sel_rank", sel.c, None)
  /\ UNCHANGED <<servers, now, hcVars, served>>

Metrics_reset_on_scrape ==
  /\ Did("metrics", None, generate_metrics(servers, heap))
  /\ heap' = [r \in Refs |->
                IF r \in Range(servers)
                  THEN [heap[r] EXCEPT !.total_requests = 0, !.error_count = 0]
                  ELSE heap[r]]
  /\ UNCHANGED <<servers, now, hcVars, served, sel, evals>>

\* metrics_exporter.generate_metrics()
Metrics ==
  /\ Did("metrics", None, generate_metrics(servers, heap))
  /\ UNCHANGED <<servers, heap, now, hcVars, served, sel, evals>>

(***************************************************************************)
(* Counter-update interface of the request-serving collaborator: a request *)
(* served by server id is counted, and counted as an error when it failed. *)
(***************************************************************************)
RecordRequest(id, failed) ==
  /\ id \in Keys(servers, heap)
  /\ LET r == Lookup(servers, heap, id)
     IN  /\ served < MaxRequests
         /\ served' = served + 1
         /\ heap' = [heap EXCEPT ![r].total_requests = @ + 1,
                                 ![r].error_count = IF failed THEN @ + 1 ELSE @]
  /\ Did("request", None, None)
  /\ UNCHANGED <<servers, now, hcVars, sel, evals>>

(***************************************************************************)
(* The clocks.  asyncio.sleep counts on the loop's monotonic clock;        *)
(* time.time() is the wall clock, which the system can set back.           *)
(***************************************************************************)
Tick ==
  /\ now + TickStep <= MaxTime
  /\ now' = now + TickStep
  /\ hcWake' = Max(0, hcWake - TickStep)
  /\ Did("tick", None, None)
  /\ UNCHANGED <<servers, heap, hcPc, hcSnap, hcTime, served, sel, evals>>

(***************************************************************************)
(* Time without end: once the clock has reached MaxTime, a further         *)
(* TickStep is recorded by moving every stored time back by TickStep       *)
(* instead of moving the clock forward.  The due test reads only the       *)
(* difference current_time - last_health_check, which this keeps; a stored *)
(* time that comes to lie more than two steps back is recorded as 0: it is *)
(* more than 30 seconds old whatever happens later.                        *)
(***************************************************************************)
MovedBack(t) == IF now - (t - TickStep) > 2 * TickStep THEN 0 ELSE t - TickStep

Elapse ==
  /\ IF now + TickStep <= MaxTime
       THEN /\ now' = now + TickStep
            /\ UNCHANGED <<heap, hcTime>>
       ELSE /\ now' = now
            /\ heap' = [r \in Refs |->
                          [heap[r] EXCEPT !.last_health_check = MovedBack(@)]]
            /\ hcTime' = MovedBack(hcTime)
  /\ hcWake' = Max(0, hcWake - TickStep)
  /\ Did("tick", None, None)
  /\ UNCHANGED <<servers, hcPc, hcSnap, served, sel, evals>>

ClockSetBack ==
  /\ now - TickStep >= StartTime
  /\ now' = now - TickStep
  /\ Did("setback", None, None)
  /\ UNCHANGED <<servers, heap, hcVars, served, sel, evals>>

(***************************************************************************)
(* The health_check coroutine, one step per statement.                     *)
(***************************************************************************)
\* for server in list(self.servers.values()):
HCSnapshot ==
  /\ hcPc = "snapshot"
  /\ hcSnap' = servers
  /\ hcTime' = 0
  /\ IF servers = <<>>
       THEN hcPc' = "sleep" /\ hcWake' = SleepInterval
       ELSE hcPc' = "check" /\ hcWake' = 0
  /\ Did("hc_snapshot", None, None)
  /\ UNCHANGED <<servers, heap, now, served, sel, evals>>

\* The loop goes on with the servers in rest, or to asyncio.sleep(30) when there is none.
NextServer(srv, hp, rest) ==
  /\ hcSnap' = rest
  /\ hcTime' = 0
  /\ heap' = Collect(srv, rest, hp)
  /\ IF rest = <<>>
       THEN hcPc' = "sleep" /\ hcWake' = SleepInterval
       ELSE hcPc' = "check" /\ hcWake' = 0

\* current_time = time.time(); if current_time - server.last_health_check > 30:
HCCheck ==
  /\ hcPc = "check"
  /\ LET r == Head(hcSnap)
     IN  /\ Did("hc_check", r, IsDue(now, heap[r]))
         /\ IF IsDue(now, heap[r])
              THEN /\ hcPc' = "score"
                   /\ hcTime' = now
                   /\ UNCHANGED <<heap, hcSnap, hcWake, evals>>
              ELSE /\ NextServer(servers, heap, Tail(hcSnap))
                   /\ evals' = Track(heap', [evals EXCEPT ![r] = Skipped(@)])
  /\ UNCHANGED <<servers, now, served, sel>>

\* server.health_score = max(0, server.health_score - (server.error_count * 10))
HCScore ==
  /\ hcPc = "score"
  /\ LET r == Head(hcSnap)
         w == WriteScore(servers, heap, r)
     IN  /\ servers' = w.servers
         /\ heap' = w.heap
         /\ evals' = [evals EXCEPT ![r] = Evaluated(@)]
         /\ Did("hc_score", r, None)
  /\ hcPc' = "stamp"
  /\ UNCHANGED <<now, hcSnap, hcTime, hcWake, served, sel>>

\* server.last_health_check = current_time
HCStamp ==
  /\ hcPc = "stamp"
  /\ LET r == Head(hcSnap)
         w == WriteStamp(servers, heap, r, hcTime)
     IN  /\ servers' = w.servers
         /\ NextServer(w.servers, w.heap, Tail(hcSnap))
         /\ evals' = Track(heap', evals)
         /\ Did("hc_stamp", r, None)
  /\ UNCHANGED <<now, served, sel>>

\* except Exception as e: logging.error(...)
HCFault ==
  /\ hcPc \in {"check", "score"}
  /\ NextServer(servers, heap, AfterFault(hcSnap))
  /\ evals' = Track(heap', evals)
  /\ Did("hc_fault", Head(hcSnap), None)
  /\ UNCHANGED <<servers, now, served, sel>>

\* await asyncio.sleep(30) returns; while True: starts the next pass.
HCWake ==
  /\ hcPc = "sleep"
  /\ hcWake = 0
  /\ hcPc' = "snapshot"
  /\ Did("hc_wake", None, None)
  /\ UNCHANGED <<servers, heap, now, hcSnap, hcTime, hcWake, served, sel, evals>>

Next ==
  \/ \E id \in PairIds, loc \in HomeLocations, in \in RegInputs :
       Register(id, loc, in[1], in[2])
  \/ \E id \in PairIds : Deregister(id)
  \/ \E c \in NearClients : Select(c)
  \/ \E id \in PairIds, failed \in BOOLEAN : RecordRequest(id, failed)
  \/ Tick
  \/ HCSnapshot
  \/ HCCheck
  \/ HCScore
  \/ HCStamp
  \/ HCFault
  \/ HCWake

Spec == Init /\ [][Next]_vars

WideNext ==
  \/ \E id \in PairIds, loc \in HomeLocations, in \in RegInputs \union WideInputs :
       Register(id, loc, in[1], in[2])
  \/ \E id \in PairIds : Deregister(id)
  \/ Tick
  \/ ClockSetBack
  \/ HCSnapshot
  \/ HCCheck
  \/ HCScore
  \/ HCStamp
  \/ HCWake

WideSpec == Init /\ [][WideNext]_vars

(***************************************************************************)
(* FleetSpec: servers at main()'s locations, with and without accumulated  *)
(* errors, registered and deregistered while the health loop runs and      *)
(* clients at both locations ask for a server.                             *)
(***************************************************************************)
FleetInputs == {<<DefaultHealth, 0>>, <<DefaultHealth, 10>>}

FleetNext ==
  \/ \E id \in PairIds, loc \in Locations, in \in FleetInputs :
       Register(id, loc, in[1], in[2])
  \/ \E id \in PairIds : Deregister(id)
  \/ \E c \in ClientLocations : Select(c)
  \/ Tick
  \/ HCSnapshot
  \/ HCCheck
  \/ HCScore
  \/ HCStamp
  \/ HCWake

FleetSpec == Init /\ [][FleetNext]_vars

(***************************************************************************)
(* ScrapeSpec: the readers of the registry, selection and the metrics      *)
(* exporter, while servers are registered, requests are counted and the    *)
(* health loop runs.                                                       *)
(***************************************************************************)
ScrapeNext ==
  \/ \E id \in PairIds, loc \in HomeLocations, in \in RegInputs :
       Register(id, loc, in[1], in[2])
  \/ \E c \in NearClients : Select(c)
  \/ \E id \in PairIds, failed \in BOOLEAN : RecordRequest(id, failed)
  \/ Metrics
  \/ Tick
  \/ HCSnapshot
  \/ HCCheck
  \/ HCScore
  \/ HCStamp
  \/ HCWake

ScrapeSpec == Init /\ [][ScrapeNext]_vars

(***************************************************************************)
(* LiveSpec: the health loop kept running by the event loop while time     *)
(* goes on without end: every statement of the coroutine that can run does *)
(* run, and asyncio.sleep(30) returns once 30 seconds have passed.         *)
(* Servers are registered and deregistered; no request is recorded, so a   *)
(* record keeps the error_count it was constructed with.                   *)
(***************************************************************************)
LiveInputs == {<<DefaultHealth, 0>>, <<DefaultHealth, 4>>}

LiveNext ==
  \/ \E id \in PairIds, loc \in HomeLocations, in \in LiveInputs :
       Register(id, loc, in[1], in[2])
  \/ \E id \in PairIds : Deregister(id)
  \/ Elapse
  \/ HCSnapshot
  \/ HCCheck
  \/ HCScore
  \/ HCStamp
  \/ HCWake

\* The initial state of Init, with the histories kept.
LiveInit ==
  /\ servers = <<>>
  /\ heap = [r \in Refs |-> FreeObj]
  /\ now = StartTime
  /\ hcPc = "snapshot"
  /\ hcSnap = <<>>
  /\ hcTime = 0
  /\ hcWake = 0
  /\ served = 0
  /\ sel = SelIdle
  /\ evals = [r \in Refs |-> Unused]
  /\ lastOp = "init" /\ lastArg = None /\ lastRet = None

\* What a step of the clock or of the coroutine changes.
loopVars == <<heap, now, hcPc, hcSnap, hcTime, hcWake>>

LiveSpec ==
  /\ LiveInit
  /\ [][LiveNext]_vars
  /\ WF_loopVars(Elapse)
  /\ WF_loopVars(HCSnapshot)
  /\ WF_loopVars(HCCheck)
  /\ WF_loopVars(HCScore)
  /\ WF_loopVars(HCStamp)
  /\ WF_loopVars(HCWake)

(***************************************************************************)
(* ThreadSpec: a caller's thread inside select_optimal_server while        *)
(* servers are registered and the health loop runs.                        *)
(***************************************************************************)
ThreadNext ==
  \/ \E id \in PairIds, loc \in HomeLocations, in \in FleetInputs :
       Register(id, loc, in[1], in[2])
  \/ \E c \in NearClients : SelBegin(c)
  \/ SelAdmit
  \/ SelRank
  \/ Tick
  \/ HCSnapshot
  \/ HCCheck
  \/ HCScore
  \/ HCStamp
  \/ HCWake

ThreadSpec == Init /\ [][ThreadNext]_vars

(***************************************************************************)
(* SelSpec: select_optimal_server applied to every registry of at most     *)
(* MaxFleet servers with distinct ids, in every insertion order.           *)
(***************************************************************************)
FleetRecords ==
  {ServerInfo(id, loc, h, 0) : id \in ServerIds, loc \in Locations, h \in FleetHealth}

\* A dict holds one entry per key: a registry has at most one server per id.
FleetSizes == {n \in 0..MaxFleet : n <= Cardinality(ServerIds)}

Fleets ==
  UNION {{f \in [1..n -> FleetRecords] :
            \A i, j \in 1..n : i # j => f[i].server_id # f[j].server_id}
         : n \in FleetSizes}

SelInit ==
  /\ \E f \in Fleets :
       /\ servers = [i \in 1..Len(f) |-> i]
       /\ heap = [r \in Refs |-> IF r <= Len(f) THEN f[r] ELSE FreeObj]
  /\ now = StartTime
  /\ hcPc = "snapshot"
  /\ hcSnap = <<>>
  /\ hcTime = 0
  /\ hcWake = 0
  /\ served = 0
  /\ sel = SelIdle
  /\ evals = [r \in Refs |-> NoEvals]
  /\ lastOp = "init" /\ lastArg = None /\ lastRet = None

SelNext == \E c \in ClientLocations : Select(c)

SelSpec == SelInit /\ [][SelNext]_vars

(***************************************************************************)
(* Properties.                                                             *)
(***************************************************************************)
Registered == Range(servers)

HealthyRegistered == {r \in Registered : heap[r].health_score > 50}

\* C1: in every reachable registry state, a record select_optimal_server
\* returns has health_score > 50.
C1_SelectedIsHealthy ==
  (last.op = "select" /\ last.ret # None) => heap[last.ret].health_score > 50

\* A selection that returned a server while a record the health loop has
\* scored down to 50 or less is registered.
C1_Witness ==
  /\ last.op = "select"
  /\ last.ret # None
  /\ \E r \in Registered : heap[r].health_score <= 50 /\ heap[r].last_health_check > 0

\* C2: select_optimal_server returns None exactly when no registered record has
\* health_score > 50, and otherwise a registered record.
C2_NoneIffNoHealthy ==
  last.op = "select" =>
    /\ last.ret = None <=> HealthyRegistered = {}
    /\ last.ret # None => last.ret \in Registered

\* A selection on a registry of three unhealthy servers, one of them at exactly 50.
C2_Witness ==
  /\ last.op = "select"
  /\ last.ret = None
  /\ Len(servers) = 3
  /\ \E r \in Registered : heap[r].health_score = 50

\* C3: the record returned minimizes (distance, 100 - health_score) over the
\* healthy records: none is strictly closer, and none at the same distance
\* has a strictly higher health_score.
C3_MinimalKey ==
  (last.op = "select" /\ last.ret # None) =>
    \A r \in HealthyRegistered :
      LET dsel == calculate_network_distance(last.arg, heap[last.ret].location)
          dr == calculate_network_distance(last.arg, heap[r].location)
      IN  \/ dsel < dr
          \/ dsel = dr /\ heap[last.ret].health_score >= heap[r].health_score

\* Servers at New York, Los Angeles and San Francisco, all of health 100, the
\* New York one registered last: the client at (40.73, -73.93) gets New York.
C3_Witness ==
  /\ last.op = "select"
  /\ last.arg = "CL"
  /\ Len(servers) = 3
  /\ \A r \in Registered : heap[r].health_score = 100
  /\ {heap[r].location : r \in Registered} = {"NY", "LA", "SF"}
  /\ heap[servers[3]].location = "NY"
  /\ last.ret = servers[3]

\* C4: the health loop's evaluation of a server: when current_time minus
\* last_health_check is more than 30, health_score becomes
\* max(0, health_score - error_count * 10) and then last_health_check becomes
\* current_time; when it is 30 or less, the record is left as it is.
C4_Evaluation ==
  [][
    /\ (last'.op = "hc_check" /\ last'.ret = TRUE) =>
         /\ now - heap[last'.arg].last_health_check > 30
         /\ hcTime' = now
         /\ heap'[last'.arg] = heap[last'.arg]
         /\ hcPc' = "score"
    /\ (last'.op = "hc_check" /\ last'.ret = FALSE) =>
         /\ now - heap[last'.arg].last_health_check <= 30
         /\ heap'[last'.arg] \in {heap[last'.arg], DeadObj}
         /\ hcPc' # "score"
    /\ last'.op = "hc_score" =>
         LET old == heap[last'.arg]
             dec == old.health_score - old.error_count * 10
         IN  /\ heap'[last'.arg] =
                  [old EXCEPT !.health_score = IF dec > 0 THEN dec ELSE 0]
             /\ hcPc' = "stamp"
    /\ last'.op = "hc_stamp" =>
         heap'[last'.arg] \in
           {[heap[last'.arg] EXCEPT !.last_health_check = hcTime], DeadObj}
  ]_vars

\* An evaluated server whose subtraction went below 0, skipped by a later pass
\* exactly 30 seconds after its evaluation.
C4_Witness ==
  /\ last.op = "hc_check"
  /\ last.ret = FALSE
  /\ heap[last.arg].last_health_check = now - 30
  /\ heap[last.arg].health_score = 0
  /\ heap[last.arg].error_count > 10

\* C5: the health_score of every registered record is within [0, 100].
C5_ScoreInRange ==
  \A r \in Registered : heap[r].health_score >= 0 /\ heap[r].health_score <= 100

\* The value of last_health_check the registry shows for id.
StampOf(srv, hp, id) == hp[Lookup(srv, hp, id)].last_health_check

\* C6, as stated: for every server id, the last_health_check seen through
\* the registry never decreases.
C6_StampOfIdNeverDecreases ==
  [][\A id \in Keys(servers, heap) \intersect Keys(servers', heap') :
       StampOf(servers', heap', id) >= StampOf(servers, heap, id)]_vars

\* C6, amended: the last_health_check of a record never decreases, the health
\* loop writes it only with a strictly greater time, and the value the
\* registry shows for an id goes down only when register_server replaces the
\* record under that id.
C6_StampOfRecordNeverDecreases ==
  [][
    /\ \A r \in Refs :
         (heap[r] # FreeObj /\ heap'[r] # DeadObj) =>
           heap'[r].last_health_check >= heap[r].last_health_check
    /\ (last'.op = "hc_stamp" /\ heap'[last'.arg] # DeadObj) =>
         heap'[last'.arg].last_health_check > heap[last'.arg].last_health_check
    /\ \A id \in Keys(servers, heap) \intersect Keys(servers', heap') :
         StampOf(servers', heap', id) < StampOf(servers, heap, id) =>
           /\ last'.op = "register"
           /\ last'.arg.server_id = id
           /\ Lookup(servers', heap', id) # Lookup(servers, heap, id)
  ]_vars

\* The health loop has just stamped a registered record for the second time.
C6_Witness ==
  /\ last.op = "hc_stamp"
  /\ last.arg \in Registered
  /\ heap[last.arg].last_health_check > StartTime
  /\ heap[last.arg].health_score = DefaultHealth - 2 * DecayPerError
  /\ heap[last.arg].error_count = 1

\* C7: register_server makes the registry map the id to the supplied record,
\* leaves every other id's record as it was, and never leaves two records
\* under one id.
C7_RegisterInsertsOrReplaces ==
  [][last'.op = "register" =>
       LET info == last'.arg
           id == info.server_id
       IN  /\ Keys(servers', heap') = Keys(servers, heap) \union {id}
           /\ Lookup(servers', heap', id) = last'.ret
           /\ heap'[last'.ret] = info
           /\ \A i, j \in 1..Len(servers') :
                i # j => heap'[servers'[i]].server_id # heap'[servers'[j]].server_id
           /\ \A other \in Keys(servers, heap) \ {id} :
                /\ Lookup(servers', heap', other) = Lookup(servers, heap, other)
                /\ heap'[Lookup(servers', heap', other)] = heap[Lookup(servers, heap, other)]
  ]_vars

\* A re-registration: the record just registered took the place of an
\* evaluated one, which the health loop's snapshot still holds under the same id.
C7_Witness ==
  /\ last.op = "register"
  /\ Len(servers) = 1
  /\ heap[servers[1]] = last.arg
  /\ \E r \in Range(hcSnap) \ Registered :
       /\ heap[r].server_id = last.arg.server_id
       /\ heap[r].last_health_check > 0

\* C8: deregister_server removes the record of a registered id, does nothing
\* and raises nothing for an unknown id, and leaves the other ids' records as
\* they were.
C8_DeregisterRemovesOrNoop ==
  [][last'.op = "deregister" =>
       LET id == last'.arg
       IN  /\ Keys(servers', heap') = Keys(servers, heap) \ {id}
           /\ last'.ret = IF id \in Keys(servers, heap) THEN "deregistered" ELSE "noop"
           /\ id \notin Keys(servers, heap) => servers' = servers /\ heap' = heap
           /\ \A other \in Keys(servers, heap) \ {id} :
                /\ Lookup(servers', heap', other) = Lookup(servers, heap, other)
                /\ heap'[Lookup(servers', heap', other)] = heap[Lookup(servers, heap, other)]
  ]_vars

\* A deregistration of an unknown id on a registry that holds another server.
C8_Witness ==
  /\ last.op = "deregister"
  /\ last.ret = "noop"
  /\ servers # <<>>

\* C9: only register_server and deregister_server change the registry's
\* entries: no step of the health loop and no selection adds or removes one.
C9_OnlyRegistryCallsChangeEntries ==
  [][last'.op \notin {"register", "deregister"} =>
       /\ servers' = servers
       /\ Keys(servers', heap') = Keys(servers, heap)]_vars

\* The health loop has scored a server that was deregistered after the
\* snapshot was taken, and its id is still not in the registry.
C9_Witness ==
  /\ last.op = "hc_score"
  /\ last.arg \notin Registered
  /\ heap[last.arg].server_id \notin Keys(servers, heap)
  /\ heap[last.arg].health_score < 100

\* C10: an exception caught while one server is evaluated leaves the rest of
\* the snapshot to be evaluated, and after the last server the loop sleeps
\* and starts another pass.
C10_FaultIsContained ==
  [][last'.op = "hc_fault" =>
       /\ hcSnap' = Tail(hcSnap)
       /\ hcPc' = IF Tail(hcSnap) = <<>> THEN "sleep" ELSE "check"
       /\ hcPc' = "sleep" => hcWake' = 30
       /\ servers' = servers
       /\ \A r \in Registered : heap'[r] = heap[r]]_vars

\* An exception was caught on the first of two servers and the loop is about
\* to evaluate the second.
C10_Witness ==
  /\ last.op = "hc_fault"
  /\ hcPc = "check"
  /\ Len(hcSnap) = 1
  /\ last.arg \in Registered
  /\ Len(servers) = 2

\* Position of record r in the registry's insertion order.
IndexOf(r) == CHOOSE i \in 1..Len(servers) : servers[i] = r

\* The healthy registered records no healthy registered record beats for
\* client c: none is closer, and none at the same distance is healthier.
BestFor(c) ==
  {r \in HealthyRegistered :
     \A q \in HealthyRegistered :
       LET dr == HaversineKm[c][heap[r].location]
           dq == HaversineKm[c][heap[q].location]
       IN  dr < dq \/ (dr = dq /\ heap[r].health_score >= heap[q].health_score)}

\* C11: the result of select_optimal_server is a function of the registry
\* state and the client location: None when no record is healthy, otherwise
\* the record that comes first in insertion order among those that tie on the
\* minimal (distance, 100 - health_score); two calls with the same location
\* on the same registry state therefore return the same record.
C11_FirstOfTheBest ==
  last.op = "select" =>
    IF HealthyRegistered = {}
      THEN last.ret = None
      ELSE /\ last.ret \in BestFor(last.arg)
           /\ \A q \in BestFor(last.arg) : IndexOf(last.ret) <= IndexOf(q)

\* Three healthy servers, the last two registered tie on distance and
\* health_score and beat the first: the selection returned the second.
C11_Witness ==
  /\ last.op = "select"
  /\ Len(servers) = 3
  /\ BestFor(last.arg) = {servers[2], servers[3]}
  /\ servers[1] \in HealthyRegistered
  /\ last.ret = servers[2]

HealthyIn(srv, hp) == {r \in Range(srv) : hp[r].health_score > 50}

\* C13: deregistering the id of the only healthy record leaves no healthy
\* record; while there is none every selection returns None; and a healthy
\* record appears again only by register_server with a health_score > 50.
C13_NoneUntilHealthyRegistered ==
  [][
    /\ (/\ last'.op = "deregister"
        /\ Cardinality(HealthyIn(servers, heap)) = 1
        /\ \A r \in HealthyIn(servers, heap) : heap[r].server_id = last'.arg) =>
         HealthyIn(servers', heap') = {}
    /\ (last'.op = "select" /\ HealthyIn(servers', heap') = {}) => last'.ret = None
    /\ (HealthyIn(servers, heap) = {} /\ HealthyIn(servers', heap') # {}) =>
         /\ last'.op = "register"
         /\ last'.arg.health_score > 50
  ]_vars

\* The only healthy server was deregistered while the health loop still held
\* it in its snapshot; an unhealthy one is left, and the selection returned None.
C13_Witness ==
  /\ last.op = "select"
  /\ last.ret = None
  /\ servers # <<>>
  /\ \E r \in Range(hcSnap) \ Registered :
       /\ heap[r].health_score > 50
       /\ heap[r].server_id \notin Keys(servers, heap)

\* A record the health loop is in the middle of evaluating: its health_score
\* is already the lowered one, its last_health_check still the one before.
PartlyUpdated(r) ==
  /\ hcPc = "stamp"
  /\ Head(hcSnap) = r
  /\ heap[r].error_count > 0
  /\ heap[r].health_score > 0 \/ heap[r].last_health_check = 0

\* C14: no selection and no metrics export takes place while a registered
\* record carries the health_score of an evaluation and not yet its
\* last_health_check.
C14_NoTornRead ==
  last.op \in {"select", "metrics"} => \A r \in Registered : ~PartlyUpdated(r)

\* C15: a select_optimal_server call ranks every record with the
\* health_score it admitted it with, the dict it iterates is not changed
\* while it iterates, and it ends with a result, not with an exception.
C15_CoherentSnapshot ==
  /\ sel.outcome # "RuntimeError"
  /\ \A i \in 1..Len(sel.ranked) : sel.ranked[i] = sel.admitted[i]
  /\ sel.pc = "iter" => servers = sel.iterated

\* The lines of a text: what stands between its "\n".
LinesOf(text) == SelectSeq(text, LAMBDA t : t # Newline)

MetricNames == {"cdn_server_health", "cdn_server_requests", "cdn_server_errors"}

\* C16: generate_metrics returns the empty text for an empty registry and,
\* for n servers, a text of exactly 3n lines separated by "\n": for each
\* registered id exactly one health line, one requests line and one errors
\* line labelled with that id.
C16_ThreeLinesPerServer ==
  last.op = "metrics" =>
    LET text == last.ret
        n == Len(servers)
    IN  /\ n = 0 => text = <<>>
        /\ Len(LinesOf(text)) = 3 * n
        /\ n > 0 => Len(text) = 6 * n - 1
        /\ \A i \in 1..Len(text) : (text[i] = Newline) <=> (i % 2 = 0)
        /\ \A id \in Keys(servers, heap), m \in MetricNames :
             Cardinality({i \in 1..Len(text) :
                            text[i].name = m /\ text[i].server_id = id}) = 1

\* An export of a registry of two servers, one of them scored down to 50 or
\* less: six lines.
C16_Witness ==
  /\ last.op = "metrics"
  /\ Len(servers) = 2
  /\ \E r \in Registered : heap[r].health_score <= 50
  /\ Len(LinesOf(last.ret)) = 6

\* C17: generate_metrics changes neither the registry's entries nor any
\* field of any record.
C17_MetricsIsReadOnly ==
  [][last'.op = "metrics" => servers' = servers /\ heap' = heap]_vars

\* An export of a registry with a server that has served a failed request and
\* has been evaluated.
C17_Witness ==
  /\ last.op = "metrics"
  /\ \E r \in Registered :
       /\ heap[r].total_requests > 0
       /\ heap[r].error_count > 0
       /\ heap[r].last_health_check > 0

\* The health_score the registry shows for id.
ScoreOf(srv, hp, id) == hp[Lookup(srv, hp, id)].health_score

\* C18: no step raises the health_score of an existing record; a selection
\* never returns a registered record whose score is 50 or less; and the score
\* the registry shows for an id goes from 50 or less to more than 50 only
\* when register_server installs another record under that id.
C18_NoRecovery ==
  [][
    /\ \A r \in Refs :
         (heap[r] # FreeObj /\ heap'[r] # DeadObj) =>
           heap'[r].health_score <= heap[r].health_score
    /\ last'.op = "select" =>
         \A r \in Range(servers') : heap'[r].health_score <= 50 => last'.ret # r
    /\ \A id \in Keys(servers, heap) \intersect Keys(servers', heap') :
         (ScoreOf(servers, heap, id) <= 50 /\ ScoreOf(servers', heap', id) > 50) =>
           /\ last'.op = "register"
           /\ last'.arg.server_id = id
           /\ Lookup(servers', heap', id) # Lookup(servers, heap, id)
  ]_vars

\* A server was scored down to 0 and its id registered again: the selection
\* returned the new record, while the health loop still holds the old one.
C18_Witness ==
  /\ last.op = "select"
  /\ last.ret \in Registered
  /\ \E o \in Range(hcSnap) \ Registered :
       /\ heap[o].server_id = heap[last.ret].server_id
       /\ heap[o].health_score <= 50
       /\ heap[o].error_count > 0

HealthLoopOps == {"hc_snapshot", "hc_check", "hc_score", "hc_stamp", "hc_wake"}

\* The score of a record constructed with h0 and e0 after k evaluations, when
\* every evaluation charges the whole error count.
ChargedScore(h0, e0, k) == IF h0 - 10 * e0 * k > 0 THEN h0 - 10 * e0 * k ELSE 0

\* C19: no step of the health loop changes error_count or total_requests;
\* a record whose error_count is still the e >= 1 it was constructed with has,
\* after k evaluations, the score max(0, h0 - 10 * e * k); and a record that
\* stays registered with error_count >= 1 ends at health_score 0 for good.
C19_ErrorsChargedEveryEvaluation ==
  /\ [][last'.op \in HealthLoopOps =>
          \A r \in Refs :
            heap'[r] # DeadObj =>
              /\ heap'[r].error_count = heap[r].error_count
              /\ heap'[r].total_requests = heap[r].total_requests]_vars
  /\ [](\A r \in Refs :
          (/\ heap[r] \notin {FreeObj, DeadObj}
           /\ evals[r].e0 >= 1
           /\ heap[r].error_count = evals[r].e0
           /\ evals[r].k <= MaxEvals) =>
            heap[r].health_score = ChargedScore(evals[r].h0, evals[r].e0, evals[r].k))
  /\ \A r \in Refs :
       <>[](r \in Registered /\ heap[r].error_count >= 1) =>
         <>[](heap[r].health_score = 0)

\* A registered record constructed with 100 and 4 errors, no error since,
\* evaluated three times: 60, 20, 0.
C19_Witness ==
  \E r \in Registered :
    /\ evals[r].h0 = 100
    /\ evals[r].e0 = 4
    /\ heap[r].error_count = 4
    /\ evals[r].k = 3
    /\ heap[r].health_score = 0

\* C20: a record that stays registered is evaluated again and again; a
\* record never evaluated (last_health_check = 0) is found due by the first
\* pass that includes it; an evaluated record is skipped by a pass that
\* reaches it exactly 30 seconds after its evaluation, and a record skipped
\* by one pass is found due by the next.
C20_EvaluatedAgainAndAgain ==
  /\ \A r \in Refs :
       <>[](r \in Registered) => []<>(last.op = "hc_score" /\ last.arg = r)
  /\ [][last'.op = "hc_check" =>
          LET r == last'.arg
          IN  /\ heap[r].last_health_check = 0 => last'.ret = TRUE
              /\ (evals[r].k > 0 /\ now - heap[r].last_health_check = 30) =>
                   last'.ret = FALSE
              /\ evals[r].skips >= 1 => last'.ret = TRUE]_vars

\* A record evaluated once, skipped by the pass 30 seconds later, and found
\* due by the pass after that.
C20_Witness ==
  /\ last.op = "hc_check"
  /\ last.ret = TRUE
  /\ last.arg \in Registered
  /\ evals[last.arg].k = 1
  /\ evals[last.arg].skips = 1

====
